---- MODULE Spec2Model ----
(***************************************************************************)
(* The Streamlit dashboard of src/app.py.  main() is the whole program: the *)
(* host runtime runs it from top to bottom once when a session opens and    *)
(* once more after every change of a widget value.  One run (a "render")    *)
(* reads the map token, loads the table presampled_points, draws the four   *)
(* controls, filters the table, and emits two pie charts, a count line, an  *)
(* optional warning and a map.                                              *)
(*                                                                          *)
(* A data frame is modelled as a bag of rows: the columns the program reads *)
(* (tUNITS, vacant, zipcode_str, building_type) identify the kind of a row, *)
(* the bag gives the number of rows of that kind.  The coordinate columns   *)
(* x, y (and their copies lat, lon) are carried through unchanged and read  *)
(* by no condition of main(), so they are not part of a row's kind.         *)
(* A Python str is a sequence of one-character strings.  An Optional value  *)
(* is <<>> (None) or <<v>>.                                                 *)
(***************************************************************************)
EXTENDS Integers, Sequences, FiniteSets

VARIABLES
    \* the environment of the process
    envFileExists,      \* os.path.exists(".env")
    dotenvToken,        \* MAPBOX_TOKEN as .env defines it, if it does
    environ,            \* os.environ.get("MAPBOX_TOKEN") of the process
    loadable,           \* the query and the astype coercions succeed
    table,              \* the rows of presampled_points in processed.db
    \* the widget values the host runtime keeps between renders
    widgetsLive,        \* the four widgets have been instantiated
    w_units, w_zipcode, w_vacant, w_types,
    \* the locals of the current (or last) run of main()
    token, data,
    selected_units, selected_zipcode, selected_vacant, selected_building_types,
    filtered,           \* the frame bound to `filtered` at line 72
    filtered_counts, unit_distribution,
    count_text,         \* the number in "Number of buildings: ..."
    plotted,            \* the frame handed to px.scatter_mapbox at line 129
    mapbox_style,
    out,                \* the elements emitted to the page, in order
    status,             \* "pending" | "done" | "aborted"
    error,              \* the exception that ended the run, "" if none
    \* history
    renders,            \* number of runs of main() so far in this session
    memo                \* one earlier completed render, kept for comparison

envVars    == <<envFileExists, dotenvToken, loadable, table>>
widgetVars == <<widgetsLive, w_units, w_zipcode, w_vacant, w_types>>
localVars  == <<token, data, selected_units, selected_zipcode, selected_vacant,
                selected_building_types, filtered, filtered_counts,
                unit_distribution, count_text, plotted, mapbox_style, out,
                error>>
vars == <<envVars, environ, widgetVars, localVars, status, renders, memo>>

-----------------------------------------------------------------------------
(* Bounds and program constants *)

\* the display cap of the map
DisplayCap == 1000

\* number of runs of main() in one session
MaxRenders == 3

-----------------------------------------------------------------------------
(* Values *)

None == <<>>

Some(v) == <<v>>

SetMin(S) == CHOOSE m \in S : \A x \in S : m <= x

SetMax(S) == CHOOSE m \in S : \A x \in S : x <= m

RECURSIVE SumOver(_, _)
\* the number of rows of frame f whose kind is in S
SumOver(f, S) ==
    IF S = {} THEN 0
    ELSE LET r == CHOOSE x \in S : TRUE
         IN  f[r] + SumOver(f, S \ {r})

\* len(frame)
FrameLen(f) == SumOver(f, DOMAIN f)

\* the frame with the rows of f whose kind is in S
Restrict(f, S) == [r \in (DOMAIN f \cap S) |-> f[r]]

EmptyFrame == Restrict(<<>>, {})

-----------------------------------------------------------------------------
(* The inputs: tables, tokens and zipcode texts *)

\* the kinds of row of the modelled tables: every tUNITS is a number and
\* every building_type a string (no NULL cells); vacancy, zipcode and type
\* vary independently of one another, and two kinds share a unit count
Rows ==
    { [tUNITS |-> 1, vacant |-> TRUE,  zipcode_str |-> <<"0", "a">>, building_type |-> "A"],
      [tUNITS |-> 2, vacant |-> TRUE,  zipcode_str |-> <<"A", "0">>, building_type |-> "B"],
      [tUNITS |-> 2, vacant |-> FALSE, zipcode_str |-> <<"0", "a">>, building_type |-> "B"],
      [tUNITS |-> 3, vacant |-> FALSE, zipcode_str |-> <<"A", "0">>, building_type |-> "A"] }

\* the kind of row a table may hold DisplayCap times
BulkRow == CHOOSE r \in Rows : r.tUNITS = 1

\* the tables: every kind of row absent or present once, one kind possibly in bulk
Tables ==
    { Restrict([r \in Rows |-> IF r = BulkRow /\ bulk THEN DisplayCap ELSE 1], S) :
        <<S, bulk>> \in { p \in (SUBSET Rows) \X BOOLEAN : p[2] => BulkRow \in p[1] } }

Tokens == {None, Some(""), Some("pk")}

\* the texts typed into the Zipcode control
ZipTexts ==
    { <<>>, <<"0">>, <<"a">>, <<".">>, <<"(">>, <<"0", "a">>, <<"0", ".">> }

VacantOptions == {"All", "Vacant", "Not Vacant"}

-----------------------------------------------------------------------------
(* main(), lines 16-20: the map token *)

\* dotenv.load_dotenv(".env"): a variable the process already has is kept
LoadDotenv(env, fileTok) == IF env = None THEN fileTok ELSE env

\* os.environ["MAPBOX_TOKEN"] raises KeyError
TokenKeyError == envFileExists /\ LoadDotenv(environ, dotenvToken) = None

\* the value bound to `token`
TokenRead == IF envFileExists THEN LoadDotenv(environ, dotenvToken) ELSE None

\* `if token:`
Truthy(tok) == tok # None /\ tok # Some("")

\* lines 130-133
MapboxStyle(tok) == IF Truthy(tok) THEN "basic" ELSE "open-street-map"

-----------------------------------------------------------------------------
(* main(), lines 23-36: the load *)

\* a load that keeps the frame of the run before instead of reading the table
QueryResultKept == IF renders = 0 THEN table ELSE filtered

\* pd.read_sql_query(query, engine): the rows of the table, read anew
QueryResult == table

-----------------------------------------------------------------------------
(* main(), lines 39-69: the controls *)

UnitValues(d) == { r.tUNITS : r \in DOMAIN d }

\* data["building_type"].unique()
UniqueTypes(d) == { r.building_type : r \in DOMAIN d }

\* min(data["tUNITS"]) raises ValueError on an empty column
SliderRaises(d) == DOMAIN d = {}

\* value=(min(data["tUNITS"]), max(data["tUNITS"]))
SliderDefault(d) == <<SetMin(UnitValues(d)), SetMax(UnitValues(d))>>

\* the ranges the slider can return (whole unit counts between its ends)
SliderRanges(d) ==
    { p \in (SliderDefault(d)[1]..SliderDefault(d)[2])
             \X (SliderDefault(d)[1]..SliderDefault(d)[2]) : p[1] <= p[2] }

\* a widget returns its default on its first run and its kept value afterwards
WidgetValue(live, kept, default) == IF live THEN kept ELSE default

-----------------------------------------------------------------------------
(* main(), lines 72-81: the filter *)

\* re.compile(pat) succeeds: over the characters of ZipTexts the only
\* failure is an opening parenthesis, which is never closed
PatternCompiles(pat) == \A i \in 1..Len(pat) : pat[i] # "("

\* the pattern matches s at offset off: "." matches any character
MatchesAt(pat, s, off) ==
    \A j \in 1..Len(pat) : pat[j] = "." \/ pat[j] = s[off + j]

\* Series.str.contains(pat) with its defaults regex=True, case=True:
\* re.search(pat, s) finds a match
StrContains(s, pat) ==
    \E off \in 0..(Len(s) - Len(pat)) : MatchesAt(pat, s, off)

UnitsAtLeast(r, lo) == r.tUNITS >= lo

\* an upper bound that leaves the bound itself out
UnitsBelow(r, hi) == r.tUNITS < hi

UnitsAtMost(r, hi) == r.tUNITS <= hi

\* a vacancy mask that forgets the "All" alternative
VacantMaskNoAll(r, sel) == r.vacant = (sel = "Vacant")

\* (selected_vacant == "All") | (data["vacant"] == (selected_vacant == "Vacant"))
VacantMask(r, sel) == sel = "All" \/ (r.vacant = (sel = "Vacant"))

\* the boolean mask of lines 73-80 for one row
Mask(r, units, zip, vac, types) ==
    /\ UnitsAtLeast(r, units[1])
    /\ UnitsAtMost(r, units[2])
    /\ r.building_type \in types
    /\ StrContains(r.zipcode_str, zip)
    /\ VacantMask(r, vac)

\* data[mask]
FilterRows(d, units, zip, vac, types) ==
    Restrict(d, { r \in DOMAIN d : Mask(r, units, zip, vac, types) })

-----------------------------------------------------------------------------
(* main(), lines 87 and 100: the distributions *)

\* filtered["building_type"].value_counts()
TypeCounts(f) ==
    [t \in { r.building_type : r \in DOMAIN f } |->
        SumOver(f, { r \in DOMAIN f : r.building_type = t })]

\* filtered["tUNITS"].value_counts()
UnitCounts(f) ==
    [u \in UnitValues(f) |-> SumOver(f, { r \in DOMAIN f : r.tUNITS = u })]

RECURSIVE SortIndexDescending(_)
\* a sort in descending index order
SortIndexDescending(vc) ==
    IF DOMAIN vc = {} THEN <<>>
    ELSE LET k == SetMax(DOMAIN vc)
         IN  <<[index |-> k, value |-> vc[k]]>>
             \o SortIndexDescending([x \in DOMAIN vc \ {k} |-> vc[x]])

RECURSIVE SortIndex(_)
\* Series.sort_index(): the (index, value) pairs in ascending index order
SortIndex(vc) ==
    IF DOMAIN vc = {} THEN <<>>
    ELSE LET k == SetMin(DOMAIN vc)
         IN  <<[index |-> k, value |-> vc[k]]>>
             \o SortIndex([x \in DOMAIN vc \ {k} |-> vc[x]])

-----------------------------------------------------------------------------
(* main(), lines 122-129: count, cap and sample *)

\* the count taken after the cap
CountAfterCap(f) == IF FrameLen(f) > DisplayCap THEN DisplayCap ELSE FrameLen(f)

\* len(filtered) in the count line
CountText(f) == FrameLen(f)

\* len(filtered) > 1000
NeedsCap(f) == FrameLen(f) > DisplayCap

\* the sub-frames of f with n rows fewer: l gives the rows left out
LeaveOut(f, n) ==
    { [r \in DOMAIN f |-> f[r] - l[r]] :
        l \in { m \in [DOMAIN f -> 0..n] :
                  /\ \A r \in DOMAIN f : m[r] <= f[r]
                  /\ SumOver(m, DOMAIN f) = n } }

\* a frame without its kinds of row that have no row left
Compact(f) == Restrict(f, { r \in DOMAIN f : f[r] > 0 })

\* a sample with replacement: n draws, possibly all of the same row
SampleWithReplacement(f, n) == { [r \in {k} |-> n] : k \in DOMAIN f }

\* filtered.sample(n): any n different rows of the frame
Sample(f, n) == { Compact(g) : g \in LeaveOut(f, FrameLen(f) - n) }

\* the frames line 129 may plot
MapFrames(f) == IF NeedsCap(f) THEN Sample(f, DisplayCap) ELSE {f}

-----------------------------------------------------------------------------
(* What a run has emitted when it reaches a line of main() *)

\* lines 39-40 (the header is written twice)
OutSidebarHeaders == <<"sidebar.header", "sidebar.header">>

\* lines 41-69
OutControls ==
    OutSidebarHeaders
    \o <<"sidebar.slider", "sidebar.text_input", "sidebar.selectbox",
         "write:intro", "write:Building Selection", "multiselect">>

\* lines 85-123
OutCharts ==
    OutControls
    \o <<"header:Building Type Proportions", "plotly_chart:types",
         "header:Number of Units Distribution", "plotly_chart:units",
         "header:Building Map", "write:Number of buildings">>

\* lines 125-136
OutAll(f) ==
    OutCharts
    \o (IF NeedsCap(f) THEN <<"warning">> ELSE <<>>)
    \o <<"plotly_chart:map">>

-----------------------------------------------------------------------------
(* The state a run leaves behind *)

\* the values of the four controls in this run (lines 41-48 and 65-69)
Units == WidgetValue(widgetsLive, w_units, SliderDefault(QueryResult))

Zipcode == WidgetValue(widgetsLive, w_zipcode, <<>>)

Vacant == WidgetValue(widgetsLive, w_vacant, "All")

Types == WidgetValue(widgetsLive, w_types, UniqueTypes(QueryResult))

\* the process environment after lines 16-17
EnvironAfter ==
    IF envFileExists THEN LoadDotenv(environ, dotenvToken) ELSE environ

\* the locals a run has not bound, and the outputs it has not produced
NoSelection ==
    /\ selected_units' = <<0, 0>>
    /\ selected_zipcode' = <<>>
    /\ selected_vacant' = ""
    /\ selected_building_types' = {}

NoResults ==
    /\ filtered' = EmptyFrame
    /\ filtered_counts' = EmptyFrame
    /\ unit_distribution' = <<>>
    /\ count_text' = None
    /\ plotted' = EmptyFrame
    /\ mapbox_style' = ""

Started ==
    /\ status = "pending"
    /\ renders' = renders + 1
    /\ environ' = EnvironAfter
    /\ UNCHANGED envVars

\* the four widgets are instantiated and hold the values they returned
WidgetsKept ==
    /\ widgetsLive' = TRUE
    /\ w_units' = Units
    /\ w_zipcode' = Zipcode
    /\ w_vacant' = Vacant
    /\ w_types' = Types

Selected ==
    /\ selected_units' = Units
    /\ selected_zipcode' = Zipcode
    /\ selected_vacant' = Vacant
    /\ selected_building_types' = Types

\* what a completed render is remembered by
Snapshot ==
    [render   |-> renders',
     controls |-> <<selected_units', selected_zipcode', selected_vacant',
                    selected_building_types'>>,
     filtered |-> filtered',
     count_text |-> count_text',
     filtered_counts |-> filtered_counts',
     unit_distribution |-> unit_distribution']

-----------------------------------------------------------------------------
(* The runs of main(), one action per way a run ends *)

\* line 18 raises KeyError: nothing has been emitted
RenderKeyError ==
    /\ Started
    /\ TokenKeyError
    /\ status' = "aborted" /\ error' = "KeyError"
    /\ token' = None /\ data' = EmptyFrame /\ out' = <<>>
    /\ NoSelection /\ NoResults
    /\ UNCHANGED <<widgetVars, memo>>

\* lines 27-33 raise: the source is unreachable or a column does not coerce
RenderLoadError ==
    /\ Started
    /\ ~TokenKeyError
    /\ ~loadable
    /\ status' = "aborted" /\ error' = "LoadError"
    /\ token' = TokenRead /\ data' = EmptyFrame /\ out' = <<>>
    /\ NoSelection /\ NoResults
    /\ UNCHANGED <<widgetVars, memo>>

\* line 43 raises ValueError: min() of an empty column, after lines 39-40
RenderEmptyTable ==
    /\ Started
    /\ ~TokenKeyError
    /\ loadable
    /\ SliderRaises(QueryResult)
    /\ status' = "aborted" /\ error' = "ValueError"
    /\ token' = TokenRead /\ data' = QueryResult /\ out' = OutSidebarHeaders
    /\ NoSelection /\ NoResults
    /\ UNCHANGED <<widgetVars, memo>>

\* line 76 raises re.error: the zipcode text is not a regular expression
RenderBadPattern ==
    /\ Started
    /\ ~TokenKeyError
    /\ loadable
    /\ ~SliderRaises(QueryResult)
    /\ ~PatternCompiles(Zipcode)
    /\ status' = "aborted" /\ error' = "re.error"
    /\ token' = TokenRead /\ data' = QueryResult /\ out' = OutControls
    /\ WidgetsKept /\ Selected /\ NoResults
    /\ UNCHANGED memo

\* the run reaches line 136
RenderComplete ==
    /\ Started
    /\ ~TokenKeyError
    /\ loadable
    /\ ~SliderRaises(QueryResult)
    /\ PatternCompiles(Zipcode)
    /\ status' = "done" /\ error' = ""
    /\ token' = TokenRead /\ data' = QueryResult
    /\ WidgetsKept /\ Selected
    /\ filtered' = FilterRows(data', Units, Zipcode, Vacant, Types)
    /\ filtered_counts' = TypeCounts(filtered')
    /\ unit_distribution' = SortIndex(UnitCounts(filtered'))
    /\ count_text' = Some(CountText(filtered'))
    /\ plotted' \in MapFrames(filtered')
    /\ mapbox_style' = MapboxStyle(token')
    /\ out' = OutAll(filtered')
    /\ memo' \in {memo} \cup (IF memo = None THEN {Some(Snapshot)} ELSE {})

-----------------------------------------------------------------------------
(* The user changes the value of one widget; the host runtime reruns main() *)

Interactive ==
    /\ widgetsLive
    /\ status # "pending"
    /\ renders < MaxRenders

Rerun ==
    /\ status' = "pending"
    /\ UNCHANGED <<envVars, environ, widgetsLive, localVars, renders, memo>>

ChangeUnits ==
    /\ Interactive
    /\ \E v \in SliderRanges(table) \ {w_units} : w_units' = v
    /\ UNCHANGED <<w_zipcode, w_vacant, w_types>>
    /\ Rerun

ChangeZipcode ==
    /\ Interactive
    /\ \E v \in ZipTexts \ {w_zipcode} : w_zipcode' = v
    /\ UNCHANGED <<w_units, w_vacant, w_types>>
    /\ Rerun

ChangeVacant ==
    /\ Interactive
    /\ \E v \in VacantOptions \ {w_vacant} : w_vacant' = v
    /\ UNCHANGED <<w_units, w_zipcode, w_types>>
    /\ Rerun

ChangeTypes ==
    /\ Interactive
    /\ \E v \in (SUBSET UniqueTypes(table)) \ {w_types} : w_types' = v
    /\ UNCHANGED <<w_units, w_zipcode, w_vacant>>
    /\ Rerun

-----------------------------------------------------------------------------
(* The specification *)

Init ==
    /\ envFileExists \in BOOLEAN
    /\ dotenvToken \in (IF envFileExists THEN Tokens ELSE {None})
    /\ environ \in {None, Some("pk")}
    /\ loadable \in BOOLEAN
    /\ table \in Tables
    /\ widgetsLive = FALSE
    /\ w_units = <<0, 0>> /\ w_zipcode = <<>> /\ w_vacant = "All" /\ w_types = {}
    /\ token = None /\ data = EmptyFrame
    /\ selected_units = <<0, 0>> /\ selected_zipcode = <<>>
    /\ selected_vacant = "" /\ selected_building_types = {}
    /\ filtered = EmptyFrame /\ filtered_counts = EmptyFrame
    /\ unit_distribution = <<>> /\ count_text = None
    /\ plotted = EmptyFrame /\ mapbox_style = ""
    /\ out = <<>> /\ status = "pending" /\ error = ""
    /\ renders = 0 /\ memo = None

Next ==
    \/ RenderKeyError
    \/ RenderLoadError
    \/ RenderEmptyTable
    \/ RenderBadPattern
    \/ RenderComplete
    \/ ChangeUnits
    \/ ChangeZipcode
    \/ ChangeVacant
    \/ ChangeTypes

Spec == Init /\ [][Next]_vars

-----------------------------------------------------------------------------
(* Vocabulary of the properties *)

\* the number of rows of kind r in frame f
Copies(f, r) == IF r \in DOMAIN f THEN f[r] ELSE 0

\* every row of f is a row of g
SubFrame(f, g) == \A r \in DOMAIN f : f[r] <= Copies(g, r)

Emitted(x) == \E i \in 1..Len(out) : out[i] = x

\* x is emitted, and before any y
Precedes(x, y) ==
    \E i \in 1..Len(out) :
        /\ out[i] = x
        /\ \A j \in 1..Len(out) : out[j] = y => i < j

\* t occurs in s at consecutive positions, character for character
LiteralSubstring(s, t) ==
    \E off \in 0..(Len(s) - Len(t)) : \A j \in 1..Len(t) : s[off + j] = t[j]

\* the three predicates of the filter that do not read the zipcode
KeptByRangeTypeVacancy(r) ==
    /\ selected_units[1] <= r.tUNITS
    /\ r.tUNITS <= selected_units[2]
    /\ r.building_type \in selected_building_types
    /\ \/ selected_vacant = "All"
       \/ selected_vacant = "Vacant" /\ r.vacant
       \/ selected_vacant = "Not Vacant" /\ ~r.vacant

\* the run got past the token and the load
Loaded == status # "pending" /\ error \notin {"KeyError", "LoadError"}

-----------------------------------------------------------------------------
(* C1 *)

\* C1: with an empty zipcode text, the filtered set holds exactly the rows of
\* the loaded set whose unit count lies in the selected range (both ends
\* included), whose type is selected and whose vacancy agrees with the
\* selector; no selected type gives an empty filtered set.
C1_FilterExact ==
    (status = "done" /\ selected_zipcode = <<>>) =>
        /\ SubFrame(filtered, data)
        /\ \A r \in DOMAIN data :
              Copies(filtered, r) = IF KeptByRangeTypeVacancy(r) THEN data[r] ELSE 0
        /\ selected_building_types = {} => filtered = EmptyFrame

\* a row on the upper end of a narrowed range is kept while another is dropped
C1_Witness ==
    /\ status = "done" /\ selected_zipcode = <<>>
    /\ selected_units[1] = selected_units[2]
    /\ selected_vacant = "Vacant"
    /\ \E r \in DOMAIN filtered : r.tUNITS = selected_units[2]
    /\ \E r \in DOMAIN data : r \notin DOMAIN filtered

-----------------------------------------------------------------------------
(* C2 *)

\* C2: a row passes the zipcode predicate exactly when its zipcode holds the
\* typed text as a literal, contiguous, case-sensitive substring, whatever
\* the text is.
C2_LiteralSubstring ==
    /\ status # "pending" /\ Loaded /\ DOMAIN data # {} => status = "done"
    /\ status = "done" =>
          \A r \in DOMAIN data :
              (r \in DOMAIN filtered) <=>
                  /\ KeptByRangeTypeVacancy(r)
                  /\ LiteralSubstring(r.zipcode_str, selected_zipcode)

-----------------------------------------------------------------------------
(* C3 *)

\* C3: the rows handed to the map are rows of the filtered set: exactly 1000
\* of them when the filtered set has more than 1000, all of them otherwise.
C3_MapSubset ==
    status = "done" =>
        /\ SubFrame(plotted, filtered)
        /\ FrameLen(filtered) > 1000 => FrameLen(plotted) = 1000
        /\ FrameLen(filtered) <= 1000 => plotted = filtered

\* a capped render whose sample leaves out a row of the bulk kind
C3_Witness ==
    /\ status = "done"
    /\ FrameLen(filtered) > 1000
    /\ FrameLen(plotted) = 1000
    /\ \E r \in DOMAIN plotted : 1 < plotted[r] /\ plotted[r] < filtered[r]

-----------------------------------------------------------------------------
(* C4 *)

\* C4: once the map header is out, the count line shows the size of the
\* filtered set before the cap, it comes before the warning and the map,
\* and the warning is shown exactly when the filtered set has more than
\* 1000 rows.
C4_CountBeforeCap ==
    Emitted("header:Building Map") =>
        /\ count_text = Some(FrameLen(filtered))
        /\ Precedes("write:Number of buildings", "warning")
        /\ Precedes("write:Number of buildings", "plotly_chart:map")
        /\ Emitted("warning") <=> FrameLen(filtered) > 1000

\* a capped render: the count is above the cap, the map holds 1000 rows
C4_Witness ==
    /\ Emitted("header:Building Map") /\ Emitted("warning")
    /\ count_text # None /\ count_text[1] > 1000
    /\ FrameLen(plotted) = 1000

-----------------------------------------------------------------------------
(* C5 *)

\* no token is to be had: no .env, or neither .env nor the environment
\* defines MAPBOX_TOKEN, or the token is empty
TokenAbsent ==
    \/ ~envFileExists
    \/ dotenvToken = None /\ environ = None
    \/ LoadDotenv(environ, dotenvToken) = Some("")

\* C5: the absence of the token is never an error: the run goes on and the
\* map uses the open tiles; the token style needs a non-empty token.
C5_TokenAbsenceNoError ==
    /\ (status # "pending" /\ TokenAbsent) =>
          /\ error # "KeyError"
          /\ status = "done" => mapbox_style = "open-street-map"
    /\ mapbox_style = "basic" => Truthy(token)

-----------------------------------------------------------------------------
(* C6 *)

\* C6: a render ends with all three visual outputs emitted, or aborts with
\* nothing emitted.
C6_AllOrNothing ==
    /\ status = "done" =>
          /\ Emitted("plotly_chart:types")
          /\ Emitted("plotly_chart:units")
          /\ Emitted("plotly_chart:map")
    /\ status = "aborted" => out = <<>>

-----------------------------------------------------------------------------
(* C7 *)

\* C7: a render whose filtered set is empty, the empty table included,
\* completes with a count of 0, no warning, two charts without segments and
\* a map without points.
C7_EmptyNeverError ==
    (Loaded /\ error # "re.error"
        /\ (DOMAIN table = {} \/ (status = "done" /\ filtered = EmptyFrame))) =>
        /\ status = "done"
        /\ count_text = Some(0)
        /\ ~Emitted("warning")
        /\ filtered_counts = EmptyFrame
        /\ unit_distribution = <<>>
        /\ plotted = EmptyFrame
        /\ Emitted("plotly_chart:types")
        /\ Emitted("plotly_chart:units")
        /\ Emitted("plotly_chart:map")

-----------------------------------------------------------------------------
(* C8 *)

\* C8: both distributions count the whole filtered set: a count per type
\* occurring, a count per unit value occurring with the keys ascending, and
\* each distribution sums to the size of the filtered set.
C8_Distributions ==
    status = "done" =>
        /\ DOMAIN filtered_counts = { r.building_type : r \in DOMAIN filtered }
        /\ \A t \in DOMAIN filtered_counts :
              filtered_counts[t] =
                  FrameLen(Restrict(filtered, { r \in Rows : r.building_type = t }))
        /\ FrameLen(filtered_counts) = FrameLen(filtered)
        /\ { unit_distribution[i].index : i \in 1..Len(unit_distribution) }
              = { r.tUNITS : r \in DOMAIN filtered }
        /\ \A i \in 1..Len(unit_distribution) :
              unit_distribution[i].value =
                  FrameLen(Restrict(filtered,
                      { r \in Rows : r.tUNITS = unit_distribution[i].index }))
        /\ \A i, j \in 1..Len(unit_distribution) :
              i < j => unit_distribution[i].index < unit_distribution[j].index
        /\ FrameLen([i \in 1..Len(unit_distribution) |-> unit_distribution[i].value])
              = FrameLen(filtered)

\* a capped render with two types and three unit values, one shared by two kinds
C8_Witness ==
    /\ status = "done"
    /\ FrameLen(filtered) > 1000 /\ FrameLen(plotted) < FrameLen(filtered)
    /\ Cardinality(DOMAIN filtered_counts) = 2
    /\ Len(unit_distribution) = 3
    /\ \E i \in 1..Len(unit_distribution) : unit_distribution[i].value = 2

-----------------------------------------------------------------------------
(* C9 *)

Controls ==
    <<selected_units, selected_zipcode, selected_vacant, selected_building_types>>

\* the completed render agrees with the remembered one on the same controls
AgreesWithMemo ==
    (status = "done" /\ memo # None /\ memo[1].controls = Controls) =>
        /\ memo[1].filtered = filtered
        /\ memo[1].count_text = count_text
        /\ memo[1].filtered_counts = filtered_counts
        /\ memo[1].unit_distribution = unit_distribution

\* C9: two renders with the same control values give the same filtered set,
\* count and distributions, whatever was rendered in between; every run
\* works on the rows of the table as loaded in that run, and the table is
\* never written.
C9_NoCarriedState ==
    /\ [](AgreesWithMemo /\ (Loaded => data = table))
    /\ [][table' = table]_vars

\* the same controls again, with a render on other controls in between
C9_Witness ==
    /\ status = "done" /\ memo # None
    /\ memo[1].controls = Controls
    /\ renders >= memo[1].render + 2
    /\ DOMAIN data = Rows /\ filtered = data

-----------------------------------------------------------------------------
(* C10 *)

\* every control holds its default value
AtDefaults ==
    /\ selected_units = <<SetMin({ r.tUNITS : r \in DOMAIN data }),
                          SetMax({ r.tUNITS : r \in DOMAIN data })>>
    /\ selected_zipcode = <<>>
    /\ selected_vacant = "All"
    /\ selected_building_types = { r.building_type : r \in DOMAIN data }

\* C10: with every control at its default the filtered set is the whole
\* loaded set and the count shown is the number of loaded rows.
C10_DefaultsKeepAll ==
    (status = "done" /\ AtDefaults) =>
        /\ filtered = data
        /\ count_text = Some(FrameLen(table))

\* the first render of a table with rows of every kind, above the cap
C10_Witness ==
    /\ status = "done" /\ AtDefaults
    /\ DOMAIN data = Rows
    /\ count_text # None /\ count_text[1] > 1000

====
